---- MODULE Spec2Model ----
(***************************************************************************)
(* The ERC-20 ledger with EIP-712 permits of src/src/erc20permit.rs (the   *)
(* same code is inlined in src/src/main.rs), with the ECRECOVER adapter of *)
(* src/src/ecrecover.rs.  Every handler is an operator from a storage      *)
(* record to a storage record and a result; an action is one external call *)
(* that runs to completion.                                                *)
(***************************************************************************)
EXTENDS Integers, FiniteSets, Sequences, TLC

VARIABLES
    balances,      \* mapping (address => uint256) balances
    total_supply,  \* uint256 total_supply
    allowances,    \* mapping (address => mapping(address => uint256)) allowances
    nonces,        \* mapping (address => uint256) nonces
    timestamp,     \* block::timestamp() of the execution environment
    chain_id,      \* chainid() of the execution environment
    last,          \* the last call made and how it ended
    spent,         \* a permit payload that has succeeded, once one is recorded
    race           \* an owner's two approvals of one spender and what the spender moved

vars == <<balances, total_supply, allowances, nonces, timestamp, chain_id, last, spent, race>>

storage_vars == <<balances, total_supply, allowances, nonces>>

-----------------------------------------------------------------------------
(* Bounds of the model. *)

\* The largest value of the unsigned integer type: stands for 2^256 - 1.
U256_MAX == 3

\* The largest amount or value a caller passes, and the supply that the
\* specifications other than SpecLedger let mint build up.
MaxAmount == 1

\* Permits per owner the specifications follow.
MaxNonce == 2

\* The latest block timestamp (and the latest deadline a caller passes).
MaxTime == 1

-----------------------------------------------------------------------------
(* Addresses and the execution environment. *)

ZERO == 0

\* The zero address and two externally owned accounts.
Address == {ZERO, 1, 2}

\* Accounts that can send a transaction (nobody holds the zero address's key).
Senders == Address \ {ZERO}

\* The address ECRECOVER derives from a signature made over another digest:
\* an address of nobody the calls name.
Stranger == CHOOSE a \in 1..(Cardinality(Address) + 1) : a \notin Address

U256 == 0..U256_MAX

Modulus == U256_MAX + 1

ChainIds == {"chainA", "chainB"}

\* contract::address() of this deployment, and the address of another one.
ThisContract == "token"

Contracts == {ThisContract, "other"}

Amounts == 0..MaxAmount

Times == 0..MaxTime

-----------------------------------------------------------------------------
(* U256 arithmetic: the operators of ruint's Uint wrap, saturating_* clamp. *)

WrappingAdd(a, b) == (a + b) % Modulus

WrappingSub(a, b) == (a - b + Modulus) % Modulus

SaturatingAdd(a, b) == IF a + b > U256_MAX THEN U256_MAX ELSE a + b

SaturatingSub(a, b) == IF a < b THEN 0 ELSE a - b

-----------------------------------------------------------------------------
(* Results. *)

Ok(st) == [st |-> st, res |-> "Ok"]

Err(st, e) == [st |-> st, res |-> e]

NamedErrors == {"PermitExpired", "InvalidPermit", "InsufficientBalance", "InsufficientAllowance"}

\* A panic of the program (a failed unwrap): the call traps.
Panic == "Panic"

-----------------------------------------------------------------------------
(* The ledger primitives. *)

saturating_debit(st, addr, amount) ==
    LET new_bal == SaturatingSub(st.balances[addr], amount)
        burned  == WrappingSub(st.balances[addr], new_bal)
    IN  [st |-> [st EXCEPT !.balances[addr] = new_bal], val |-> burned]

debit(st, addr, amount) ==
    LET bal == st.balances[addr]
    IN  IF bal < amount
        THEN Err(st, "InsufficientBalance")
        ELSE Ok([st EXCEPT !.balances[addr] = WrappingSub(bal, amount)])

saturating_credit(st, addr, amount) ==
    LET new_bal == SaturatingAdd(st.balances[addr], amount)
        minted  == WrappingSub(new_bal, st.balances[addr])
    IN  [st |-> [st EXCEPT !.balances[addr] = new_bal], val |-> minted]

credit(st, addr, amount) ==
    LET bal == st.balances[addr]
    IN  Ok([st EXCEPT !.balances[addr] = WrappingAdd(bal, amount)])

move_tokens(st, from, to, amount) ==
    LET d == debit(st, from, amount)
    IN  IF d.res # "Ok" THEN d ELSE credit(d.st, to, amount)

\* A set_approval that writes nothing (told apart by C5_ValidPermitEffect).
set_approval_dropped(st, owner, spender, amount) == Ok(st)

set_approval(st, owner, spender, amount) ==
    Ok([st EXCEPT !.allowances[owner][spender] = amount])

\* An increment_nonce that adds two (told apart by C3_NonceStep), and one
\* that leaves the nonce alone (told apart by C2_ReplayFails).
increment_nonce_twice(st, owner) ==
    Ok([st EXCEPT !.nonces[owner] = WrappingAdd(st.nonces[owner], 2)])

increment_nonce_skipped(st, owner) == Ok(st)

increment_nonce(st, owner) ==
    LET next == st.nonces[owner]
    IN  Ok([st EXCEPT !.nonces[owner] = WrappingAdd(next, 1)])

_mint(st, to, amount) ==
    LET total == st.total_supply
        c     == saturating_credit(st, to, amount)
    IN  Ok([c.st EXCEPT !.total_supply = WrappingAdd(total, amount)])

_burn(st, from, amount) ==
    LET total == st.total_supply
        d     == saturating_debit(st, from, amount)
    IN  Ok([d.st EXCEPT !.total_supply = WrappingSub(total, d.val)])

_allowance(st, owner, spender) == st.allowances[owner][spender]

_transfer(st, sender, to, amount) == move_tokens(st, sender, to, amount)

\* An _approve that writes the entry of the spender towards the sender (told
\* apart by C16_AllowanceChanges).
_approve_swapped(st, sender, spender, amount) == set_approval(st, spender, sender, amount)

\* An _approve that adds the amount to the allowance there is (told apart by
\* C17_ApproveAsPermit).
_approve_added(st, sender, spender, amount) ==
    set_approval(st, sender, spender, WrappingAdd(_allowance(st, sender, spender), amount))

\* An _approve that refuses to replace an allowance that is not zero by
\* another one (told apart by C20_ApproveOverwrites).
_approve_guarded(st, sender, spender, amount) ==
    IF _allowance(st, sender, spender) # 0 /\ amount # 0 THEN Err(st, "InsufficientAllowance")
    ELSE set_approval(st, sender, spender, amount)

_approve(st, sender, spender, amount) == set_approval(st, sender, spender, amount)

\* A _transfer_from that looks at the balance first (told apart by
\* C13_AllowanceCheckedFirst).
_transfer_from_balance_first(st, sender, from, to, amount) ==
    IF st.balances[from] < amount THEN Err(st, "InsufficientBalance")
    ELSE IF _allowance(st, from, sender) < amount THEN Err(st, "InsufficientAllowance")
    ELSE move_tokens(set_approval(st, from, sender, WrappingSub(_allowance(st, from, sender), amount)).st, from, to, amount)

_transfer_from(st, sender, from, to, amount) ==
    LET spender   == sender
        allowance == _allowance(st, from, spender)
    IN  IF allowance < amount
        THEN Err(st, "InsufficientAllowance")
        ELSE LET a == set_approval(st, from, spender, WrappingSub(allowance, amount))
             IN  move_tokens(a.st, from, to, amount)

-----------------------------------------------------------------------------
(* The EIP-712 domain, the signing hash and signature recovery. *)

\* DomainInfo of the deployed contract (MyDomain).
DOMAIN_NAME == "my dumb token"

DOMAIN_VERSION == "1"

DOMAIN_SALT == "deadbeefdeadbeefdeadbeefdeadbeefdeadbeefdeadbeefdeadbeefdeadbeef"

Eip712Domain(chain, contract) ==
    [name |-> DOMAIN_NAME, version |-> DOMAIN_VERSION, chain_id |-> chain,
     verifying_contract |-> contract, salt |-> DOMAIN_SALT]

\* A get_domain that keeps the chain id of deployment (told apart by
\* C7_OtherDomainRejected).
get_domain_of_deployment(env) == Eip712Domain("chainA", env.address)

get_domain(env) == Eip712Domain(env.chain_id, env.address)

Permit(owner, spender, value, nonce, deadline) ==
    [owner |-> owner, spender |-> spender, value |-> value, nonce |-> nonce, deadline |-> deadline]

\* The signing hash binds the domain and every field of the message: it is
\* modelled as the pair itself, so two hashes are equal exactly when the domain
\* and the message are.
eip712_signing_hash(permit, domain) == [domain |-> domain, message |-> permit]

\* A signature (v, r, s).  A well-formed one is the signature of `signer` over
\* one digest; the precompile rejects the call for a "rejected" one and answers
\* with empty return data for a "noanswer" one.
Sign(signer, hash) == [kind |-> "signed", signer |-> signer, hash |-> hash]

NoDigest == eip712_signing_hash(Permit(ZERO, ZERO, 0, 0, 0), [name |-> "", version |-> "", chain_id |-> "", verifying_contract |-> "", salt |-> ""])

Rejected == [kind |-> "rejected", signer |-> ZERO, hash |-> NoDigest]

NoAnswer == [kind |-> "noanswer", signer |-> ZERO, hash |-> NoDigest]

\* call::static_call(Call::new(), ECRECOVER, &data): the precompile's answer,
\* as the call's outcome and the words of its return data.
static_call_ECRECOVER(hash, vrs) ==
    CASE vrs.kind = "rejected" -> [ok |-> FALSE, ret |-> <<>>]
      [] vrs.kind = "noanswer" -> [ok |-> TRUE, ret |-> <<>>]
      [] OTHER -> [ok |-> TRUE, ret |-> <<IF vrs.hash = hash THEN vrs.signer ELSE Stranger>>]

\* Result<Address, Error>, or a panic of the unwrap on return data that does
\* not decode to an address.
ecrecover(hash, vrs) ==
    LET call == static_call_ECRECOVER(hash, vrs)
    IN  IF ~call.ok THEN [tag |-> "Err", addr |-> ZERO]
        ELSE IF Len(call.ret) = 0 THEN [tag |-> Panic, addr |-> ZERO]
        ELSE [tag |-> "Ok", addr |-> call.ret[1]]

\* The two checks _permit makes before it reads the signature, with a zero
\* check that never fires (told apart by C9_ZeroOwnerRejected) and an
\* exclusive deadline (told apart by C10_DeadlineInclusive).
owner_is_zero_never(owner) == FALSE

owner_is_zero(owner) == owner = ZERO

deadline_passed_at(env, deadline) == env.timestamp >= deadline

deadline_passed(env, deadline) == env.timestamp > deadline

\* A _permit that only the spender may submit (told apart by
\* C21_PermitIgnoresCaller).
_permit_by_spender(st, env, owner, spender, value, deadline, vrs) ==
    IF env.sender # spender THEN Err(st, "InvalidPermit")
    ELSE IF owner_is_zero(owner) THEN Err(st, "InvalidPermit")
    ELSE IF deadline_passed(env, deadline) THEN Err(st, "PermitExpired")
    ELSE LET recovered == ecrecover(eip712_signing_hash(Permit(owner, spender, value, st.nonces[owner], deadline), get_domain(env)), vrs)
         IN  IF recovered.tag = Panic THEN Err(st, Panic)
             ELSE IF recovered.tag = "Err" THEN Err(st, "InvalidPermit")
             ELSE IF recovered.addr # owner THEN Err(st, "InvalidPermit")
             ELSE increment_nonce(set_approval(st, owner, spender, value).st, owner)

_permit(st, env, owner, spender, value, deadline, vrs) ==
    IF owner_is_zero(owner) THEN Err(st, "InvalidPermit")
    ELSE IF deadline_passed(env, deadline) THEN Err(st, "PermitExpired")
    ELSE LET permit      == Permit(owner, spender, value, st.nonces[owner], deadline)
             domain      == get_domain(env)
             permit_hash == eip712_signing_hash(permit, domain)
             recovered   == ecrecover(permit_hash, vrs)
         IN  IF recovered.tag = Panic THEN Err(st, Panic)
             ELSE IF recovered.tag = "Err" THEN Err(st, "InvalidPermit")
             ELSE IF recovered.addr # owner THEN Err(st, "InvalidPermit")
             ELSE LET a == set_approval(st, owner, spender, value)
                  IN  increment_nonce(a.st, owner)

_transfer_with_permit(st, env, to, amount, owner, spender, value, deadline, vrs) ==
    LET p == _permit(st, env, owner, spender, value, deadline, vrs)
    IN  IF p.res # "Ok" THEN p ELSE _transfer_from(p.st, env.sender, owner, to, amount)

-----------------------------------------------------------------------------
(* Calls and their dispatch. *)

\* One call: the operation, msg::sender() and the arguments (an operation
\* ignores the fields it does not take; `owner` is transfer_from's `from`).
Call(op, sender, owner, spender, to, amount, value, deadline, vrs) ==
    [op |-> op, sender |-> sender, owner |-> owner, spender |-> spender, to |-> to,
     amount |-> amount, value |-> value, deadline |-> deadline, vrs |-> vrs]

TransferCall(sender, to, amount) == Call("transfer", sender, ZERO, ZERO, to, amount, 0, 0, Rejected)

ApproveCall(sender, spender, amount) == Call("approve", sender, ZERO, spender, ZERO, amount, 0, 0, Rejected)

TransferFromCall(sender, from, to, amount) == Call("transfer_from", sender, from, ZERO, to, amount, 0, 0, Rejected)

PermitCall(sender, owner, spender, value, deadline, vrs) == Call("permit", sender, owner, spender, ZERO, 0, value, deadline, vrs)

TransferWithPermitCall(sender, to, amount, owner, spender, value, deadline, vrs) == Call("transfer_with_permit", sender, owner, spender, to, amount, value, deadline, vrs)

MintCall(to, amount) == Call("mint", ZERO, ZERO, ZERO, to, amount, 0, 0, Rejected)

BurnCall(from, amount) == Call("burn", ZERO, from, ZERO, ZERO, amount, 0, 0, Rejected)

\* The environment a call runs in: msg::sender(), block::timestamp(),
\* chainid() and contract::address().
Env(sender, time, chain) ==
    [sender |-> sender, timestamp |-> time, chain_id |-> chain, address |-> ThisContract]

\* The handler a call is routed to, run on storage st.
Dispatch(st, env, c) ==
    CASE c.op = "transfer" -> _transfer(st, env.sender, c.to, c.amount)
      [] c.op = "approve" -> _approve(st, env.sender, c.spender, c.amount)
      [] c.op = "transfer_from" -> _transfer_from(st, env.sender, c.owner, c.to, c.amount)
      [] c.op = "permit" -> _permit(st, env, c.owner, c.spender, c.value, c.deadline, c.vrs)
      [] c.op = "transfer_with_permit" -> _transfer_with_permit(st, env, c.to, c.amount, c.owner, c.spender, c.value, c.deadline, c.vrs)
      [] c.op = "mint" -> _mint(st, c.to, c.amount)
      [] c.op = "burn" -> _burn(st, c.owner, c.amount)

\* What a call leaves behind: the writes of a call that returns Ok are kept; a
\* call that returns an error or traps reverts, and the host discards them.
Outcome(st, env, c) ==
    LET r == Dispatch(st, env, c)
    IN  IF r.res = "Ok" THEN r ELSE [st |-> st, res |-> r.res]

-----------------------------------------------------------------------------
(* Signatures. *)

\* The digest the contract computes for a permit when the owner's nonce is n.
Digest(owner, spender, value, n, deadline, chain, contract) ==
    eip712_signing_hash(Permit(owner, spender, value, n, deadline), Eip712Domain(chain, contract))

\* The signatures a caller may submit with a permit for (owner, spender, value,
\* deadline): of any signer, over any domain and any nonce, or malformed.
Signatures(owner, spender, value, deadline) ==
    { Sign(k, Digest(owner, spender, value, n, deadline, c, a)) :
        k \in Address, n \in 0..MaxNonce, c \in ChainIds, a \in Contracts }
    \cup {Rejected, NoAnswer}

\* The owner's signature over the digest the contract computes in storage st on
\* chain `chain`.
ValidSignature(st, chain, owner, spender, value, deadline) ==
    Sign(owner, Digest(owner, spender, value, st.nonces[owner], deadline, chain, ThisContract))

\* The signatures the calls of the state machine carry: the valid one, the
\* owner's over another nonce, another chain or another contract, another
\* signer's over the right digest, and the two malformed ones.
Submitted(st, chain, owner, spender, value, deadline) ==
    {ValidSignature(st, chain, owner, spender, value, deadline), Rejected, NoAnswer}
    \cup { Sign(owner, Digest(owner, spender, value, n, deadline, chain, ThisContract)) : n \in 0..MaxNonce }
    \cup { Sign(owner, Digest(owner, spender, value, st.nonces[owner], deadline, c, ThisContract)) : c \in ChainIds }
    \cup { Sign(owner, Digest(owner, spender, value, st.nonces[owner], deadline, chain, a)) : a \in Contracts }
    \cup { Sign(k, Digest(owner, spender, value, st.nonces[owner], deadline, chain, ThisContract)) : k \in Address }

-----------------------------------------------------------------------------
(* The state machine. *)

\* The contract's storage as the handlers see it.
cur ==
    [balances |-> balances, total_supply |-> total_supply,
     allowances |-> allowances, nonces |-> nonces]

\* The environment of a call made now by `sender`.
Now(sender) == Env(sender, timestamp, chain_id)

NoCall == Call("none", ZERO, ZERO, ZERO, ZERO, 0, 0, 0, Rejected)

\* What is noted of the last call: the operation and its result and, of a
\* permit, the owner, the deadline against the timestamp of the call and the
\* signature against the digest the contract computed.
NoObservation == [op |-> "none", res |-> "Ok", owner |-> ZERO, when |-> "now", sig |-> "none"]

When(deadline) ==
    IF deadline < timestamp THEN "past" ELSE IF deadline = timestamp THEN "now" ELSE "future"

SigClass(c) ==
    LET digest == Digest(c.owner, c.spender, c.value, nonces[c.owner], c.deadline, chain_id, ThisContract)
    IN  IF c.vrs.kind # "signed" THEN c.vrs.kind
        ELSE IF c.vrs.hash = digest THEN (IF c.vrs.signer = c.owner THEN "owner" ELSE "other_signer")
        ELSE IF c.vrs.signer = c.owner /\ c.vrs.hash.message = digest.message THEN "other_domain"
        ELSE "other_digest"

Observe(c) ==
    [op |-> c.op, res |-> Dispatch(cur, Now(c.sender), c).res, owner |-> c.owner,
     when |-> When(c.deadline), sig |-> SigClass(c)]

\* No approval has been noted.
NoRace == [owner |-> ZERO, spender |-> ZERO, first |-> 0, second |-> 0, moved |-> 0]

Init ==
    /\ balances = [a \in Address |-> 0]
    /\ total_supply = 0
    /\ allowances = [a \in Address |-> [b \in Address |-> 0]]
    /\ nonces = [a \in Address |-> 0]
    /\ timestamp = 0
    /\ chain_id = "chainA"
    /\ last = NoObservation
    /\ spent = NoCall
    /\ race = NoRace

\* One call runs to completion.  The specifications follow an owner's nonce up
\* to MaxNonce.
Execute(c) ==
    \E r \in {Outcome(cur, Now(c.sender), c)} :
        /\ \A a \in Address : r.st.nonces[a] <= MaxNonce
        /\ balances' = r.st.balances
        /\ total_supply' = r.st.total_supply
        /\ allowances' = r.st.allowances
        /\ nonces' = r.st.nonces
        /\ UNCHANGED <<timestamp, chain_id>>

transfer(sender, to, amount) == Execute(TransferCall(sender, to, amount))

approve(sender, spender, amount) == Execute(ApproveCall(sender, spender, amount))

transfer_from(sender, from, to, amount) == Execute(TransferFromCall(sender, from, to, amount))

permit(sender, owner, spender, value, deadline, vrs) == Execute(PermitCall(sender, owner, spender, value, deadline, vrs))

transfer_with_permit(sender, to, amount, owner, spender, value, deadline, vrs) ==
    Execute(TransferWithPermitCall(sender, to, amount, owner, spender, value, deadline, vrs))

mint(to, amount) == Execute(MintCall(to, amount))

burn(from, amount) == Execute(BurnCall(from, amount))

\* The environment: a later block, and a fork that changes the chain id.
Tick ==
    /\ timestamp < MaxTime
    /\ timestamp' = timestamp + 1
    /\ UNCHANGED <<storage_vars, chain_id>>

Fork ==
    /\ chain_id' \in ChainIds \ {chain_id}
    /\ UNCHANGED <<storage_vars, timestamp>>

ghosts == <<last, spent, race>>

\* The token as a whole: every operation, with mint held to a supply of
\* MaxAmount, on one chain.
Next ==
    \/ \E s \in Senders, to \in Address, amount \in Amounts :
         transfer(s, to, amount) /\ UNCHANGED ghosts
    \/ \E s \in Senders, sp \in Senders, amount \in Amounts :
         approve(s, sp, amount) /\ UNCHANGED ghosts
    \/ \E s \in Senders, from \in Address, to \in Address, amount \in Amounts :
         transfer_from(s, from, to, amount) /\ UNCHANGED ghosts
    \/ \E s \in Senders, o \in Address, sp \in Senders, v \in Amounts, d \in Times :
         \E vrs \in Submitted(cur, chain_id, o, sp, v, d) :
            permit(s, o, sp, v, d, vrs) /\ UNCHANGED ghosts
    \/ \E s \in Senders, to \in Address, amount \in Amounts, o \in Address, sp \in Senders, v \in Amounts, d \in Times :
         \E vrs \in {ValidSignature(cur, chain_id, o, sp, v, d), NoAnswer} :
            transfer_with_permit(s, to, amount, o, sp, v, d, vrs) /\ UNCHANGED ghosts
    \/ \E to \in Address, amount \in 1..MaxAmount :
         total_supply + amount <= MaxAmount /\ mint(to, amount) /\ UNCHANGED ghosts
    \/ \E from \in Address, amount \in 1..MaxAmount :
         burn(from, amount) /\ UNCHANGED ghosts
    \/ Tick /\ UNCHANGED ghosts

Spec == Init /\ [][Next]_vars

\* The ledger alone, with mint and transfers of every amount up to U256_MAX:
\* the arithmetic at the ceiling of the integer type.
NextLedger ==
    \/ \E to \in Address, amount \in 1..U256_MAX :
         mint(to, amount) /\ UNCHANGED ghosts
    \/ \E from \in Address, amount \in 1..U256_MAX :
         burn(from, amount) /\ UNCHANGED ghosts
    \/ \E s \in Senders, to \in Address, amount \in U256 :
         transfer(s, to, amount) /\ UNCHANGED ghosts
    \/ \E s \in Senders : \E sp \in Senders \ {s}, amount \in U256 :
         approve(s, sp, amount) /\ UNCHANGED ghosts
    \/ \E s \in Senders, from \in Address, to \in Address, amount \in U256 :
         transfer_from(s, from, to, amount) /\ UNCHANGED ghosts

SpecLedger == Init /\ [][NextLedger]_vars

\* The permit operation alone, on a chain that may fork, with what was asked
\* of it noted in `last`.
NextPermit ==
    \/ \E s \in Senders, o \in Address, sp \in Senders, d \in Times :
         \E vrs \in Submitted(cur, chain_id, o, sp, MaxAmount, d) :
            /\ permit(s, o, sp, MaxAmount, d, vrs)
            /\ last' = Observe(PermitCall(s, o, sp, MaxAmount, d, vrs))
            /\ UNCHANGED <<spent, race>>
    \/ Tick /\ UNCHANGED ghosts
    \/ Fork /\ UNCHANGED ghosts

SpecPermit == Init /\ [][NextPermit]_vars

\* Permits among approvals, transfers with permit and the passing of time;
\* `spent` keeps the payload of one permit that succeeded, which any sender
\* may submit again, and `last` the result of submitting it again.
Replayed(sender) == [spent EXCEPT !.sender = sender]

replay(sender) ==
    /\ spent # NoCall
    /\ Execute(Replayed(sender))
    /\ last' = [NoObservation EXCEPT !.op = "replay",
                                     !.res = Dispatch(cur, Now(sender), Replayed(sender)).res]
    /\ UNCHANGED <<spent, race>>

NextReplay ==
    \/ \E s \in Senders, o \in Address, sp \in Senders, d \in Times :
         \E vrs \in Submitted(cur, chain_id, o, sp, MaxAmount, d) :
            /\ permit(s, o, sp, MaxAmount, d, vrs)
            /\ \/ UNCHANGED spent
               \/ /\ spent = NoCall
                  /\ Dispatch(cur, Now(s), PermitCall(s, o, sp, MaxAmount, d, vrs)).res = "Ok"
                  /\ spent' = PermitCall(s, o, sp, MaxAmount, d, vrs)
            /\ UNCHANGED <<last, race>>
    \/ \E s \in Senders, sp \in Senders :
         approve(s, sp, 0) /\ UNCHANGED ghosts
    \/ \E s \in Senders, to \in Address, o \in Senders, d \in Times :
         /\ transfer_with_permit(s, to, 0, o, s, MaxAmount, d,
                                 ValidSignature(cur, chain_id, o, s, MaxAmount, d))
         /\ UNCHANGED ghosts
    \/ Tick /\ UNCHANGED ghosts
    \/ \E s \in Senders : replay(s)

SpecReplay == Init /\ [][NextReplay]_vars

\* Two approvals and the spender between them: the first owner to approve a
\* spender is noted with the amount; a second approval of that spender by
\* that owner is noted too, and is the last one made; what the spender's
\* transfer_from calls move out of the owner's account is added up.  Mint
\* keeps the supply within the integer type.
approve_noted(sender, spender, amount) ==
    /\ approve(sender, spender, amount)
    /\ race' = IF race = NoRace
                 THEN [owner |-> sender, spender |-> spender, first |-> amount, second |-> 0, moved |-> 0]
               ELSE IF sender = race.owner /\ spender = race.spender
                 THEN [race EXCEPT !.second = amount]
               ELSE race
    /\ UNCHANGED <<last, spent>>

transfer_from_noted(sender, from, to, amount) ==
    /\ transfer_from(sender, from, to, amount)
    /\ race' = IF /\ sender = race.spender /\ from = race.owner
                  /\ Dispatch(cur, Now(sender), TransferFromCall(sender, from, to, amount)).res = "Ok"
                 THEN [race EXCEPT !.moved = @ + amount]
               ELSE race
    /\ UNCHANGED <<last, spent>>

NextRace ==
    \/ \E to \in Senders, amount \in 1..U256_MAX :
         total_supply + amount <= U256_MAX /\ mint(to, amount) /\ UNCHANGED ghosts
    \/ \E s \in Senders, sp \in Senders, amount \in 1..U256_MAX :
         /\ sp # s
         /\ (s = race.owner /\ sp = race.spender) => race.second = 0
         /\ approve_noted(s, sp, amount)
    \/ \E s \in Senders, from \in Senders, to \in Address, amount \in 1..U256_MAX :
         /\ to # from
         /\ transfer_from_noted(s, from, to, amount)

SpecRace == Init /\ [][NextRace]_vars

-----------------------------------------------------------------------------
(* Sums. *)

RECURSIVE SumOver(_, _)
SumOver(f, S) ==
    IF S = {} THEN 0
    ELSE LET a == CHOOSE x \in S : TRUE IN f[a] + SumOver(f, S \ {a})

\* The sum of all account balances, as a number.
SumOfBalances == SumOver(balances, Address)

-----------------------------------------------------------------------------
(* C1: in every reachable state, total supply equals the sum of all account *)
(* balances.                                                               *)

\* C1: total_supply = sum of balances, in every state reachable by any
\* sequence of calls.
C1_SupplyIsSumOfBalances == total_supply = SumOfBalances

-----------------------------------------------------------------------------
(* The calls the properties below range over, in the current state. *)

\* What a call made now leaves behind.
After(c) == Outcome(cur, Now(c.sender), c)

\* A permit call carrying the owner's signature over the digest the contract
\* computes now.
ValidPermitCall(sender, owner, spender, value, deadline) ==
    PermitCall(sender, owner, spender, value, deadline, ValidSignature(cur, chain_id, owner, spender, value, deadline))

\* The permit calls, with the signatures of Submitted.
PermitCalls ==
    UNION { { PermitCall(s, o, sp, v, d, vrs) : s \in Senders, vrs \in Submitted(cur, chain_id, o, sp, v, d) } :
            o \in Address, sp \in Senders, v \in Amounts, d \in Times }

\* The transfer_with_permit calls, with the valid signature and a malformed one.
TransferWithPermitCalls ==
    UNION { { TransferWithPermitCall(s, to, amount, o, sp, v, d, vrs) :
                s \in Senders, to \in Address, amount \in Amounts,
                vrs \in {ValidSignature(cur, chain_id, o, sp, v, d), NoAnswer} } :
            o \in Address, sp \in Senders, v \in Amounts, d \in Times }

\* The calls of the external operations that take no signature.
LedgerCalls ==
    { TransferCall(s, to, amount) : s \in Senders, to \in Address, amount \in U256 }
    \cup { ApproveCall(s, sp, amount) : s \in Senders, sp \in Address, amount \in U256 }
    \cup { TransferFromCall(s, from, to, amount) : s \in Senders, from \in Address, to \in Address, amount \in U256 }

MintBurnCalls ==
    { MintCall(to, amount) : to \in Address, amount \in U256 }
    \cup { BurnCall(from, amount) : from \in Address, amount \in U256 }

\* The calls of the mutating external operations.
ExternalCalls == LedgerCalls \cup PermitCalls \cup TransferWithPermitCalls

-----------------------------------------------------------------------------
(* C3: a nonce never decreases; it grows by exactly 1 on each successful    *)
(* permit or transfer_with_permit of its owner and is left alone otherwise. *)

\* C3: whatever call is made in a reachable state, every account's nonce
\* afterwards is its nonce before, plus 1 exactly when the call is a
\* successful permit or transfer_with_permit whose owner is that account.
C3_NonceStep ==
    \A c \in ExternalCalls \cup MintBurnCalls :
        \A r \in {After(c)} :
            \A a \in Address :
                r.st.nonces[a] =
                    nonces[a] + (IF /\ r.res = "Ok"
                                    /\ c.op \in {"permit", "transfer_with_permit"}
                                    /\ c.owner = a
                                 THEN 1 ELSE 0)

\* C3 witness: two permits of one owner have succeeded, and none of another.
C3_Witness ==
    \E a \in Senders, b \in Senders : nonces[a] = 2 /\ nonces[b] = 0 /\ total_supply > 0

-----------------------------------------------------------------------------
(* C4: a mutating external operation that fails leaves balances,            *)
(* allowances, nonces and total supply as they were and signals one of the  *)
(* named errors.                                                            *)

\* C4: every external call that does not return Ok leaves the storage as it
\* was and ends in one of the four named errors.
C4_FailureIsNamedAndChangesNothing ==
    \A c \in ExternalCalls :
        \A r \in {After(c)} :
            r.res # "Ok" => r.st = cur /\ r.res \in NamedErrors

-----------------------------------------------------------------------------
(* C5: a permit validly signed by a non-zero owner, not expired, succeeds   *)
(* whoever submits it, sets the allowance, raises the nonce by one and      *)
(* changes nothing else.                                                    *)

\* C5: for every sender, non-zero owner O, spender S, value V and deadline not
\* before the current timestamp, the permit carrying O's signature over O's
\* current nonce and the current domain returns Ok and leaves exactly
\* allowance(O,S) = V and nonce(O) one higher.
C5_ValidPermitEffect ==
    \A s \in Senders, o \in Address \ {ZERO}, sp \in Address, v \in U256, d \in Times :
        d >= timestamp =>
            After(ValidPermitCall(s, o, sp, v, d)) =
                Ok([cur EXCEPT !.allowances[o][sp] = v, !.nonces[o] = nonces[o] + 1])

\* C5 witness: a permit has set an allowance of an owner who holds tokens and
\* never called approve (only a permit raises a nonce), while the other
\* account's nonce is untouched.
C5_Witness ==
    \E o \in Senders, sp \in Senders :
        /\ o # sp
        /\ nonces[o] = 1
        /\ nonces[sp] = 0
        /\ allowances[o][sp] = MaxAmount
        /\ balances[o] = MaxAmount

-----------------------------------------------------------------------------
(* C6: transfer_with_permit transfers against the allowance its own permit *)
(* step granted to `spender`.                                              *)

\* C6: whenever the permit step of transfer_with_permit succeeds with
\* value >= amount and the owner holds at least amount, the call returns Ok,
\* moves amount from owner to `to` and leaves allowance(owner, spender) =
\* value - amount; and when the permit step fails the call fails as the permit
\* does, with nothing transferred.
C6_TransferUsesGrantedAllowance ==
    \A c \in TransferWithPermitCalls :
        \A p \in {_permit(cur, Now(c.sender), c.owner, c.spender, c.value, c.deadline, c.vrs)} :
            \A r \in {After(c)} :
                /\ p.res # "Ok" => r.res = p.res /\ r.st = cur
                /\ (p.res = "Ok" /\ c.value >= c.amount /\ balances[c.owner] >= c.amount) =>
                      /\ r.res = "Ok"
                      /\ r.st.balances = credit(debit(cur, c.owner, c.amount).st, c.to, c.amount).st.balances
                      /\ r.st.allowances[c.owner][c.spender] = c.value - c.amount

-----------------------------------------------------------------------------
(* C8: a failure of the signature recovery makes permit fail with           *)
(* InvalidPermit; permit ends in Ok, InvalidPermit or PermitExpired only.   *)

\* C8: every permit call, with any signature, well-formed or not, ends in Ok,
\* InvalidPermit or PermitExpired, and a permit whose signature the recovery
\* cannot turn into the owner's address does not end in Ok.
C8_PermitOutcomes ==
    \A o \in Address, sp \in Senders, v \in Amounts, d \in Times :
        \A vrs \in Signatures(o, sp, v, d) :
            \A r \in {Dispatch(cur, Now(sp), PermitCall(sp, o, sp, v, d, vrs))} :
                /\ r.res \in {"Ok", "InvalidPermit", "PermitExpired"}
                /\ (o # ZERO /\ d >= timestamp /\ vrs # ValidSignature(cur, chain_id, o, sp, v, d)) =>
                      r.res = "InvalidPermit"

-----------------------------------------------------------------------------
(* The permit's domain, owner and deadline. *)

Run(c) == Dispatch(cur, Now(c.sender), c)

C9_ZeroOwnerRejected ==
    \A sp \in Senders, v \in Amounts, d \in Times :
        \A vrs \in Signatures(ZERO, sp, v, d) :
            Run(PermitCall(sp, ZERO, sp, v, d, vrs)) = Err(cur, "InvalidPermit")

\* A permit of the zero owner, its deadline passed and its signature one that
\* recovers to the zero address, was refused as invalid.
C9_Witness ==
    /\ last.op = "permit" /\ last.owner = ZERO /\ last.sig = "owner"
    /\ last.when = "past" /\ last.res = "InvalidPermit"

\* C10: a permit of a non-zero owner, validly signed, with deadline equal to
\* the timestamp takes effect, and every permit of a non-zero owner with
\* deadline below the timestamp returns PermitExpired and writes nothing,
\* whatever its signature.
C10_DeadlineInclusive ==
    \A sp \in Senders, o \in Address \ {ZERO}, v \in Amounts :
        /\ Run(ValidPermitCall(sp, o, sp, v, timestamp))
              = Ok([cur EXCEPT !.allowances[o][sp] = v, !.nonces[o] = nonces[o] + 1])
        /\ \A d \in Times :
              d < timestamp =>
                 \A vrs \in Signatures(o, sp, v, d) :
                    Run(PermitCall(sp, o, sp, v, d, vrs)) = Err(cur, "PermitExpired")

\* Time has moved on, and a permit whose deadline was the timestamp of the
\* call was accepted.
C10_Witness ==
    /\ timestamp > 0
    /\ last.op = "permit" /\ last.when = "now" /\ last.sig = "owner" /\ last.res = "Ok"

-----------------------------------------------------------------------------
(* Replay. *)

\* C2: a permit payload that succeeded once (owner, spender, value, deadline
\* and signature as they were) fails when it is submitted again, by any
\* sender and after any operations in between, and writes nothing: with
\* InvalidPermit while the timestamp has not passed its deadline, and with
\* PermitExpired once it has.
C2_ReplayFails ==
    spent # NoCall =>
        \A s \in Senders :
            Run(Replayed(s)) =
                Err(cur, IF timestamp > spent.deadline THEN "PermitExpired" ELSE "InvalidPermit")

\* C2 as stated: the payload submitted again fails with InvalidPermit in
\* every later state.
C2_ReplayFailsInvalidPermit ==
    spent # NoCall =>
        \A s \in Senders : Run(Replayed(s)) = Err(cur, "InvalidPermit")

\* A payload that succeeded was submitted again and refused as invalid after
\* its owner had a second permit accepted.
C2_Witness ==
    /\ spent # NoCall
    /\ last.op = "replay" /\ last.res = "InvalidPermit"
    /\ nonces[spent.owner] = 2

-----------------------------------------------------------------------------
(* Mint at the ceiling of the integer type. *)

\* C11: for every account and amount, in every reachable state, mint returns
\* Ok and raises total supply by exactly what it added to the balance of the
\* account (the amount credited after saturation).
C11_MintAddsWhatItCredited ==
    \A to \in Address, amount \in U256 :
        \A r \in {Run(MintCall(to, amount))} :
            /\ r.res = "Ok"
            /\ r.st.total_supply = total_supply + (r.st.balances[to] - balances[to])

\* C12: when total supply is U256_MAX, mint to any account of any amount
\* returns Ok and leaves the balance of the account and total supply (the
\* whole storage) as they were.
C12_MintAtFullSupplyCreditsNothing ==
    total_supply = U256_MAX =>
        \A to \in Address, amount \in U256 : Run(MintCall(to, amount)) = Ok(cur)

-----------------------------------------------------------------------------
(* transfer and transfer_from. *)

\* C13: transfer_from by a spender whose allowance from `from` is below the
\* amount returns InsufficientAllowance and writes nothing (balances and the
\* allowance as before), whatever the balance of `from`, short or not.
C13_AllowanceCheckedFirst ==
    \A s \in Senders, from \in Address, to \in Address, amount \in U256 :
        allowances[from][s] < amount =>
            Run(TransferFromCall(s, from, to, amount)) = Err(cur, "InsufficientAllowance")

\* A spender holds an allowance that is not zero and an owner a balance short
\* of an amount the allowance does not cover either, and the transfer_from of
\* that amount is refused for the allowance.
C13_Witness ==
    \E s \in Senders, from \in Address, amount \in U256 :
        /\ from # s
        /\ 0 < allowances[from][s] /\ allowances[from][s] < amount
        /\ 0 < balances[from] /\ balances[from] < amount
        /\ Run(TransferFromCall(s, from, s, amount)).res = "InsufficientAllowance"

\* C14: a transfer_from that returns Ok has lowered allowance(from, spender)
\* by exactly the amount (also from U256_MAX), lowered balance(from) and
\* raised balance(to) by exactly the amount, and left total supply, nonces,
\* every other balance and every other allowance as they were.
C14_TransferFromEffect ==
    \A s \in Senders, from \in Address, to \in Address, amount \in U256 :
        \A r \in {Run(TransferFromCall(s, from, to, amount))} :
            r.res = "Ok" =>
                /\ r.st.allowances = [allowances EXCEPT ![from][s] = @ - amount]
                /\ \A a \in Address :
                      r.st.balances[a] = balances[a] - (IF a = from THEN amount ELSE 0)
                                                     + (IF a = to THEN amount ELSE 0)
                /\ r.st.total_supply = total_supply
                /\ r.st.nonces = nonces

\* C15: transfer returns InsufficientBalance and writes nothing exactly when
\* the balance of the sender is below the amount; otherwise it returns Ok
\* with the balance of the sender lower and the balance of `to` higher by the
\* amount (no change when they are the same account) and nothing else changed.
C15_TransferEffect ==
    \A s \in Senders, to \in Address, amount \in U256 :
        Run(TransferCall(s, to, amount)) =
            IF balances[s] < amount THEN Err(cur, "InsufficientBalance")
            ELSE Ok([cur EXCEPT !.balances =
                        [a \in Address |-> balances[a] - (IF a = s THEN amount ELSE 0)
                                                       + (IF a = to THEN amount ELSE 0)]])

-----------------------------------------------------------------------------
(* What changes an allowance. *)

\* transfer_with_permit calls by the permit's spender, validly signed and not
\* expired, of every value and amount.
SpenderTransferWithPermitCalls ==
    { TransferWithPermitCall(s, to, amount, o, s, v, timestamp, ValidSignature(cur, chain_id, o, s, v, timestamp)) :
        s \in Senders, to \in Senders, amount \in U256, o \in Senders, v \in U256 }

AllCalls == ExternalCalls \cup MintBurnCalls \cup SpenderTransferWithPermitCalls

\* The three ways of C16 for the entry (o, sp) under call c with outcome r:
\* approve by o, the permit of a call for (o, sp), the transfer_from of a call
\* from o by sp.
SetByApprove(c, r, o, sp) ==
    /\ c.op = "approve" /\ c.sender = o /\ c.spender = sp
    /\ r.st.allowances[o][sp] = c.amount

SetByPermit(c, r, o, sp) ==
    /\ c.op \in {"permit", "transfer_with_permit"} /\ c.owner = o /\ c.spender = sp
    /\ r.st.allowances[o][sp] = c.value

SpentByTransferFrom(c, r, o, sp) ==
    /\ c.op \in {"transfer_from", "transfer_with_permit"} /\ c.owner = o /\ c.sender = sp
    /\ r.st.allowances[o][sp] = allowances[o][sp] - c.amount

\* The permit and the transfer_from of one transfer_with_permit on the same
\* entry: set to the value, then lowered by the amount.
SetAndSpentByTransferWithPermit(c, r, o, sp) ==
    /\ c.op = "transfer_with_permit" /\ c.owner = o /\ c.spender = sp /\ c.sender = sp
    /\ r.st.allowances[o][sp] = c.value - c.amount

\* C16: whatever call is made in a reachable state, an allowance entry that
\* differs afterwards was changed by a successful call in one of four ways:
\* set to the amount by approve of its owner, set to the permit value by the
\* permit of a permit or transfer_with_permit call, lowered by exactly the
\* amount by the transfer_from of a transfer_from or transfer_with_permit
\* call of its spender, or, by one transfer_with_permit of its spender, set
\* to the permit value and lowered by the amount; so transfer, mint, burn and
\* failed calls change none.
C16_AllowanceChanges ==
    \A c \in AllCalls :
        \A r \in {After(c)} :
            \A o \in Address, sp \in Address :
                r.st.allowances[o][sp] # allowances[o][sp] =>
                    /\ r.res = "Ok"
                    /\ \/ SetByApprove(c, r, o, sp)
                       \/ SetByPermit(c, r, o, sp)
                       \/ SpentByTransferFrom(c, r, o, sp)
                       \/ SetAndSpentByTransferWithPermit(c, r, o, sp)

\* C16 as stated: the three ways only.
C16_AllowanceChangesThreeWays ==
    \A c \in AllCalls :
        \A r \in {After(c)} :
            \A o \in Address, sp \in Address :
                r.st.allowances[o][sp] # allowances[o][sp] =>
                    /\ r.res = "Ok"
                    /\ \/ SetByApprove(c, r, o, sp)
                       \/ SetByPermit(c, r, o, sp)
                       \/ SpentByTransferFrom(c, r, o, sp)

\* An owner holds tokens and a transfer_with_permit by the spender, of a
\* value above the amount, leaves an allowance that is neither the value nor
\* the old allowance less the amount.
C16_Witness ==
    \E c \in SpenderTransferWithPermitCalls :
        /\ c.amount > 0 /\ c.value > c.amount /\ allowances[c.owner][c.spender] # c.value
        /\ After(c).res = "Ok"
        /\ After(c).st.allowances[c.owner][c.spender] = c.value - c.amount

-----------------------------------------------------------------------------
(* approve and permit before a transfer_from. *)

\* The outcome of the spender's transfer_from made in storage st.
ThenTransferFrom(st, owner, spender, to, amount) ==
    Outcome(st, Now(spender), TransferFromCall(spender, owner, to, amount))

\* C17: from any reachable state where the owner holds at least the amount,
\* approve(spender, amount) by the owner followed by the spender's
\* transfer_from(owner, to, amount), and a valid permit of that value
\* (submitted by anyone, deadline not passed) followed by the same
\* transfer_from, both succeed and end in the same storage, except that the
\* nonce of the owner is one higher after the permit.
C17_ApproveAsPermit ==
    \A o \in Senders, sp \in Senders, to \in Address, amount \in U256, s \in Senders, d \in Times :
        (balances[o] >= amount /\ d >= timestamp) =>
            \A a \in {After(ApproveCall(o, sp, amount))}, p \in {After(ValidPermitCall(s, o, sp, amount, d))} :
                \A ra \in {ThenTransferFrom(a.st, o, sp, to, amount)}, rp \in {ThenTransferFrom(p.st, o, sp, to, amount)} :
                    /\ a.res = "Ok" /\ p.res = "Ok" /\ ra.res = "Ok" /\ rp.res = "Ok"
                    /\ rp.st = [ra.st EXCEPT !.nonces[o] = @ + 1]

\* An owner holds tokens, a spender an allowance that differs from an amount
\* the balance covers, and both ways move that amount to a third account.
C17_Witness ==
    \E o \in Senders, sp \in Senders, to \in Address, amount \in 1..U256_MAX :
        /\ to # o /\ sp # o /\ balances[o] >= amount /\ allowances[o][sp] # amount
        /\ ThenTransferFrom(After(ApproveCall(o, sp, amount)).st, o, sp, to, amount).st.balances[to]
              = balances[to] + amount
        /\ ThenTransferFrom(After(ValidPermitCall(sp, o, sp, amount, timestamp)).st, o, sp, to, amount).st.balances[to]
              = balances[to] + amount

-----------------------------------------------------------------------------
(* The arithmetic of credit and burn. *)

\* C18: in every state reachable by mint, burn, transfer and transfer_from,
\* the sum of balances is at most U256_MAX and, for every transfer of an
\* amount the sender's balance covers, the addition made by credit (the
\* recipient's balance after the debit, plus the amount) is at most U256_MAX.
C18_CreditNeverWraps ==
    /\ SumOfBalances <= U256_MAX
    /\ \A from \in Senders, to \in Address, amount \in U256 :
          \A d \in {debit(cur, from, amount)} :
              d.res = "Ok" => d.st.balances[to] + amount <= U256_MAX

\* C19: in every reachable state burn of any amount from any account returns
\* Ok, lowers the balance by min(amount, balance) and total supply by exactly
\* as much, as numbers (no wrap below zero), and changes nothing else.
C19_BurnEffect ==
    \A from \in Address, amount \in U256 :
        \A burned \in {IF amount < balances[from] THEN amount ELSE balances[from]} :
            Run(BurnCall(from, amount)) =
                Ok([cur EXCEPT !.balances[from] = @ - burned, !.total_supply = @ - burned])

-----------------------------------------------------------------------------
(* approve overwrites. *)

\* C20: in every reachable state approve by any sender, for any spender and
\* amount, returns Ok and leaves allowance(sender, spender) at the amount,
\* whatever it was, and nothing else changed; and a spender an owner approved
\* twice, for N and then for M, has moved at most N + M out of the owner's
\* account (C20_Witness: N + M is reached).
C20_ApproveOverwrites ==
    /\ \A s \in Senders, sp \in Address, amount \in U256 :
          Run(ApproveCall(s, sp, amount)) = Ok([cur EXCEPT !.allowances[s][sp] = amount])
    /\ race.moved <= race.first + race.second

\* The owner approved the spender for N and later for M, both above zero, and
\* the spender's transfer_from calls have moved N + M out of the owner's
\* account.
C20_Witness ==
    /\ race.first > 0 /\ race.second > 0
    /\ race.moved = race.first + race.second

-----------------------------------------------------------------------------
(* Who submits a permit. *)

\* C21: in every reachable state, a permit call with given owner, spender,
\* value, deadline and signature (any signature, well formed or not) ends
\* with the same result and leaves the same storage whichever account
\* submits it, timestamp and domain being those of the state.
C21_PermitIgnoresCaller ==
    \A o \in Address, sp \in Senders, v \in Amounts, d \in Times :
        \A vrs \in Signatures(o, sp, v, d) :
            \A r \in {Run(PermitCall(ZERO, o, sp, v, d, vrs))} :
                \A s \in Senders : Run(PermitCall(s, o, sp, v, d, vrs)) = r

\* A permit has been accepted before, and a valid permit for a spender is
\* accepted alike from the spender and from another account, changing the
\* allowance.
C21_Witness ==
    \E o \in Senders, sp \in Senders, s \in Senders, d \in Times :
        /\ s # sp /\ nonces[o] > 0 /\ allowances[o][sp] # MaxAmount
        /\ Run(ValidPermitCall(sp, o, sp, MaxAmount, d)).res = "Ok"
        /\ Run(ValidPermitCall(s, o, sp, MaxAmount, d)) = Run(ValidPermitCall(sp, o, sp, MaxAmount, d))

====
